---- MODULE Spec2Model ----
(***************************************************************************)
(* A model of the iota/rdit text editor core.                              *)
(*                                                                         *)
(*   - src/src/rdit/buffer.rs : Buffer of numbered Lines (insert_line,     *)
(*     join_line_with_previous, split_line, get_line_at, new_from_file)    *)
(*   - src/src/iota/editor.rs : Editor::save_active_buffer                 *)
(*   - src/src/buffer.rs      : Buffer that owns its Cursor (adjust_cursor,*)
(*     insert_char, delete_char, insert_new_line)                          *)
(*   - src/src/iota/editor.rs : Editor::start, event_loop, main_loop,      *)
(*     handle_key_event, handle_system_event                               *)
(*                                                                         *)
(* A String is modelled as the sequence of its UTF-8 bytes, because every  *)
(* length and offset of the code is a byte count (String::len,             *)
(* into_bytes, slice_to/slice_from) while pop(), truncate() and            *)
(* from_utf8/from_utf8_lossy work on characters.  A panic ends the         *)
(* program: status = "panic" and no further action is taken.               *)
(***************************************************************************)
EXTENDS Integers, Sequences, FiniteSets, TLC

VARIABLES
    fs,      \* the file at the buffer's path: [exists, data]
    lines,   \* rdit Buffer.lines: sequence of [data, linenum]
    call,    \* the last call on the rdit buffer: [op, offset, line_num]
    ret,     \* what that call returned: [offset, bits]
    status,  \* "ok", or "panic" once a call has panicked
    buffer,  \* the Buffer of src/src/buffer.rs: [lines, cursor]
    key,     \* the last operation on that buffer: [op, ch]
    bstatus, \* "ok" or "panic" for that buffer
    session, \* how many times the path has been opened
    running,   \* Editor.running
    events,    \* the channel from the polling thread to the main loop
    pc,        \* where main_loop stands: "draw", "recv", "handle",
               \* "set_position", "done"
    event,     \* the event main_loop received last
    polled,    \* how many events the polling thread has sent
    handled,   \* how many events main_loop has received
    xy,        \* the handler's local (x, y), written back by set_position
    drawn,     \* the buffer as the last draw saw it
    committed  \* the buffer as the last completed command left it

evars == <<running, events, pc, event, polled, handled, xy, drawn, committed>>

vars == <<fs, lines, call, ret, status, buffer, key, bstatus, session,
          running, events, pc, event, polled, handled, xy, drawn, committed>>

----------------------------------------------------------------------------
(* Bounds of the model *)

\* longest initial file, in bytes
MaxFile == 4

\* insert_line / insert_new_line are not taken once a buffer has this many lines
MaxLines == 3

\* an edit of the src/src/buffer.rs Buffer is not taken once the buffer's text,
\* or the cursor offset, would exceed this many bytes
MaxText == 6

\* how many times the editor is started on the path
MaxSessions == 2

----------------------------------------------------------------------------
(* Bytes, characters and UTF-8 *)

\* '\n' as u8
LF == 10

\* uint arithmetic wraps.  The real width is the pointer width; the model
\* keeps 30 bits so that values stay inside TLC's integers.  All the code
\* relies on is that 0 - 1 is the largest uint.
UintModulus == 2^30

USub(a, b) == (a - b + UintModulus) % UintModulus

\* 'a', the two bytes of U+00E9, and the line terminator
FileBytes == {97, 195, 169, LF}

\* the characters a key event can carry: 'a', U+00E9, U+0161
KeyChars == {97, 233, 353}

\* U+FFFD in UTF-8 (REPLACEMENT of from_utf8_lossy)
REPLACEMENT == <<239, 191, 189>>

SeqsUpTo(S, n) == UNION {[1..k -> S] : k \in 0..n}

Drop(s, n) == SubSeq(s, n + 1, Len(s))

Take(s, n) == SubSeq(s, 1, n)

\* unicode::str::utf8_char_width
utf8_char_width(b) ==
    IF b < 128 THEN 1
    ELSE IF b \in 194..223 THEN 2
    ELSE IF b \in 224..239 THEN 3
    ELSE IF b \in 240..244 THEN 4
    ELSE 0

IsCont(b) == b \in 128..191

\* the range the byte after lead byte b0 must lie in
SecondOk(b0, b1) ==
    CASE b0 \in 194..223 -> b1 \in 128..191
      [] b0 = 224        -> b1 \in 160..191
      [] b0 \in 225..236 -> b1 \in 128..191
      [] b0 = 237        -> b1 \in 128..159
      [] b0 \in 238..239 -> b1 \in 128..191
      [] b0 = 240        -> b1 \in 144..191
      [] b0 \in 241..243 -> b1 \in 128..191
      [] b0 = 244        -> b1 \in 128..143
      [] OTHER           -> FALSE

\* how many of the w-1 bytes after the lead byte v[1] continue it
RECURSIVE Matched(_, _, _)
Matched(v, w, k) ==
    IF k = w - 1 \/ Len(v) < k + 2 THEN k
    ELSE IF (IF k = 0 THEN SecondOk(v[1], v[2]) ELSE IsCont(v[k + 2]))
         THEN Matched(v, w, k + 1)
         ELSE k

\* String::from_utf8_lossy: every maximal ill-formed run becomes U+FFFD
RECURSIVE from_utf8_lossy(_)
from_utf8_lossy(v) ==
    IF v = <<>> THEN <<>>
    ELSE LET w == utf8_char_width(v[1]) IN
         IF w = 0 THEN REPLACEMENT \o from_utf8_lossy(Tail(v))
         ELSE LET k == Matched(v, w, 0) IN
              IF k = w - 1
              THEN Take(v, w) \o from_utf8_lossy(Drop(v, w))
              ELSE REPLACEMENT \o from_utf8_lossy(Drop(v, k + 1))

\* String::from_utf8(v).is_ok(): a well-formed sequence loses nothing
is_utf8(v) == from_utf8_lossy(v) = v

\* str::is_char_boundary
is_char_boundary(s, index) ==
    IF index = Len(s) THEN TRUE
    ELSE IF index > Len(s) THEN FALSE
    ELSE s[index + 1] < 128 \/ s[index + 1] >= 192

\* String::pop: removes the last character, all of its bytes
RECURSIVE pop(_)
pop(s) ==
    IF s = <<>> THEN <<>>
    ELSE IF IsCont(s[Len(s)]) /\ Len(s) > 1 THEN pop(Take(s, Len(s) - 1))
    ELSE Take(s, Len(s) - 1)

\* `ch as u8`: the low eight bits of the code point
as_u8(ch) == ch % 256

\* BufferedReader::lines: the records of a file, each with its terminator,
\* the last one without when the file does not end in one
RECURSIVE file_lines(_, _)
file_lines(data, cur) ==
    IF data = <<>> THEN (IF cur = <<>> THEN <<>> ELSE <<cur>>)
    ELSE IF data[1] = LF THEN <<Append(cur, LF)>> \o file_lines(Tail(data), <<>>)
    ELSE file_lines(Tail(data), Append(cur, data[1]))

----------------------------------------------------------------------------
(* src/src/rdit/buffer.rs *)

Line_new(data, line_num) == [data |-> data, linenum |-> line_num]

Buffer_new == <<>>

new_empty == <<Line_new(<<>>, 0)>>

\* Buffer::new_from_file: [panic, lines]
new_from_file(f) ==
    IF f.exists
    THEN LET recs == file_lines(f.data, <<>>) IN
         IF \E i \in 1..Len(recs) : ~is_utf8(recs[i])
         THEN [panic |-> TRUE, lines |-> Buffer_new]
         ELSE [panic |-> FALSE,
               lines |-> [i \in 1..Len(recs) |-> Line_new(pop(recs[i]), i - 1)]]
    ELSE [panic |-> FALSE, lines |-> Buffer_new \o <<Line_new(<<>>, 0)>>]

\* fix_linenums that renumbers nothing
fix_linenums_skipped(ls) == ls

\* Buffer::fix_linenums
fix_linenums(ls) == [i \in 1..Len(ls) |-> [ls[i] EXCEPT !.linenum = i - 1]]

\* Buffer::get_line_at: "Some" with the line, "None", or "Panic" (index out
\* of bounds) when lines.len() - 1 wraps
get_line_at(ls, line_num) ==
    LET num_lines == USub(Len(ls), 1) IN
    IF line_num > num_lines THEN [tag |-> "None"]
    ELSE IF line_num < Len(ls) THEN [tag |-> "Some", line |-> ls[line_num + 1]]
    ELSE [tag |-> "Panic"]

\* Buffer::split_line: [panic, bits]
split_line(ls, offset, line_num) ==
    LET got == get_line_at(ls, line_num) IN
    IF got.tag # "Some" THEN [panic |-> TRUE, bits |-> <<>>]
    ELSE LET data == got.line.data IN
         IF offset > Len(data) THEN [panic |-> TRUE, bits |-> <<>>]
         ELSE [panic |-> FALSE,
               bits |-> <<from_utf8_lossy(Take(data, offset)),
                          from_utf8_lossy(Drop(data, offset))>>]

\* the line at line_num left at its full length
truncate_line_skipped(ls, offset, line_num) ==
    LET got == get_line_at(ls, line_num) IN
    [panic |-> got.tag # "Some" \/ ~is_char_boundary(got.line.data, offset),
     lines |-> ls]

\* String::truncate on the line at line_num: [panic, lines]
truncate_line(ls, offset, line_num) ==
    LET got == get_line_at(ls, line_num) IN
    IF got.tag # "Some" \/ ~is_char_boundary(got.line.data, offset)
    THEN [panic |-> TRUE, lines |-> ls]
    ELSE [panic |-> FALSE,
          lines |-> [ls EXCEPT ![line_num + 1].data = Take(@, offset)]]

\* format!("{}{}", a, b) with the arguments swapped
format2_swapped(a, b) == b \o a

\* format!("{}{}", a, b)
format2(a, b) == a \o b

\* Vec::insert
vec_insert(v, index, x) == Take(v, index) \o <<x>> \o Drop(v, index)

\* Vec::remove of the element after the one asked for
vec_remove_next(v, index) == Take(v, index + 1) \o Drop(v, index + 2)

\* Vec::remove
vec_remove(v, index) == Take(v, index) \o Drop(v, index + 1)

\* Buffer::insert_line: [panic, lines]
insert_line(ls, offset, line_num) ==
    LET bits == split_line(ls, offset, line_num) IN
    IF bits.panic THEN [panic |-> TRUE, lines |-> ls]
    ELSE LET cut == truncate_line(ls, offset, line_num) IN
         IF cut.panic THEN [panic |-> TRUE, lines |-> ls]
         ELSE [panic |-> FALSE,
               lines |-> fix_linenums(
                   vec_insert(cut.lines, line_num + 1,
                              Line_new(bits.bits[2], line_num + 1)))]

\* Buffer::join_line_with_previous: [panic, lines, ret]
join_line_with_previous(ls, offset, line_num) ==
    LET prev_line == get_line_at(ls, USub(line_num, 1)) IN
    IF prev_line.tag = "Panic" THEN [panic |-> TRUE, lines |-> ls, ret |-> 0]
    ELSE IF prev_line.tag = "None"
    THEN [panic |-> FALSE, lines |-> ls, ret |-> offset]
    ELSE LET prev_line_data == prev_line.line.data
             line_len == Len(prev_line_data)
             current_line == get_line_at(ls, line_num)
         IN  IF current_line.tag # "Some"
             THEN [panic |-> TRUE, lines |-> ls, ret |-> 0]
             ELSE LET new_data == format2(prev_line_data, current_line.line.data)
                      joined == [ls EXCEPT ![line_num].data = new_data]
                  IN  [panic |-> FALSE,
                       lines |-> fix_linenums(vec_remove(joined, line_num)),
                       ret |-> line_len]

----------------------------------------------------------------------------
(* src/src/buffer.rs: the Buffer that owns its Cursor.  A line is its data. *)

\* Cursor::new, get_position, set_position (cursor.rs): a plain pair
Cursor_new == [offset |-> 0, line_num |-> 0]

set_position(b, x, y) == [b EXCEPT !.cursor = [offset |-> x, line_num |-> y]]

B_new == [lines |-> <<>>, cursor |-> Cursor_new]

\* Buffer::new_from_file: [panic, buffer].  File::open of a missing path is
\* an Err that lines() hands on and unwrap() panics on.
B_new_from_file(f) ==
    LET recs == file_lines(f.data, <<>>) IN
    IF ~f.exists \/ \E i \in 1..Len(recs) : ~is_utf8(recs[i])
    THEN [panic |-> TRUE, buffer |-> B_new]
    ELSE [panic |-> FALSE,
          buffer |-> [B_new EXCEPT !.lines = [i \in 1..Len(recs) |-> pop(recs[i])]]]

\* Buffer::get_line_at: a scan for the index
B_get_line_at(ls, line_num) ==
    IF \E index \in 0..(Len(ls) - 1) : index = line_num
    THEN [tag |-> "Some", data |-> ls[line_num + 1]]
    ELSE [tag |-> "None"]

\* the column kept as it is when a row is entered
clamp_x_kept(x, line_len) == x

\* adjust_cursor, Up and Down: if x > line_len { x = line_len }
clamp_x(x, line_len) == IF x > line_len THEN line_len ELSE x

\* Right allowed from the end of the line too
may_move_right_at_end(line, x) == line.tag = "Some" /\ Len(line.data) >= x

\* adjust_cursor, Right: line.is_some() && line.len() > x
may_move_right(line, x) == line.tag = "Some" /\ Len(line.data) > x

\* adjust_cursor, Left: line.is_some() && x > 0
may_move_left(line, x) == line.tag = "Some" /\ x > 0

\* Buffer::adjust_cursor
adjust_cursor(b, dir) ==
    LET x == b.cursor.offset
        y == b.cursor.line_num
    IN  CASE dir = "Up" ->
               LET line == B_get_line_at(b.lines, USub(y, 1)) IN
               IF line.tag = "Some"
               THEN set_position(b, clamp_x(x, Len(line.data)), y - 1)
               ELSE set_position(b, x, y)
          [] dir = "Down" ->
               LET line == B_get_line_at(b.lines, y + 1) IN
               IF line.tag = "Some"
               THEN set_position(b, clamp_x(x, Len(line.data)), y + 1)
               ELSE set_position(b, x, y)
          [] dir = "Right" ->
               LET line == B_get_line_at(b.lines, y) IN
               IF may_move_right(line, x)
               THEN set_position(b, x + 1, y)
               ELSE set_position(b, x, y)
          [] dir = "Left" ->
               LET line == B_get_line_at(b.lines, y) IN
               IF may_move_left(line, x)
               THEN set_position(b, x - 1, y)
               ELSE set_position(b, x, y)

\* Buffer::split_line, at the cursor: [panic, bits]
B_split_line(b) ==
    LET x == b.cursor.offset
        line == B_get_line_at(b.lines, b.cursor.line_num)
    IN  IF line.tag = "None" \/ x > Len(line.data)
        THEN [panic |-> TRUE, bits |-> <<>>]
        ELSE [panic |-> FALSE,
              bits |-> <<from_utf8_lossy(Take(line.data, x)),
                         from_utf8_lossy(Drop(line.data, x))>>]

\* Buffer::join_line_with_previous: [panic, buffer]
B_join_line_with_previous(b, line_num) ==
    LET prev_line == B_get_line_at(b.lines, USub(line_num, 1)) IN
    IF prev_line.tag = "None" THEN [panic |-> FALSE, buffer |-> b]
    ELSE LET line_len == Len(prev_line.data)
             current_line == B_get_line_at(b.lines, line_num)
         IN  IF current_line.tag = "None" THEN [panic |-> TRUE, buffer |-> b]
             ELSE LET new_data == format2(prev_line.data, current_line.data)
                      joined == [b.lines EXCEPT ![line_num] = new_data]
                  IN  [panic |-> FALSE,
                       buffer |-> set_position(
                           [b EXCEPT !.lines = vec_remove(joined, line_num)],
                           line_len, line_num - 1)]

\* Buffer::delete_char: [panic, buffer]
delete_char(b) ==
    LET offset == b.cursor.offset
        line_num == b.cursor.line_num
    IN  IF offset = 0 THEN B_join_line_with_previous(b, line_num)
        ELSE LET bits == B_split_line(b) IN
             IF bits.panic THEN [panic |-> TRUE, buffer |-> b]
             ELSE LET new_data == format2(pop(bits.bits[1]), bits.bits[2]) IN
                  [panic |-> FALSE,
                   buffer |-> set_position(
                       [b EXCEPT !.lines[line_num + 1] = new_data],
                       offset - 1, line_num)]

\* Buffer::insert_char: [panic, buffer]
insert_char(b, ch) ==
    LET x == b.cursor.offset
        y == b.cursor.line_num
        line == B_get_line_at(b.lines, y)
    IN  IF line.tag = "None" \/ x > Len(line.data)
        THEN [panic |-> TRUE, buffer |-> b]
        ELSE LET data == vec_insert(line.data, x, as_u8(ch)) IN
             [panic |-> FALSE,
              buffer |-> set_position(
                  IF is_utf8(data) THEN [b EXCEPT !.lines[y + 1] = data] ELSE b,
                  x + 1, y)]

\* Buffer::update_line
B_update_line(b, bits) ==
    LET line_num == b.cursor.line_num IN
    [b EXCEPT !.lines = vec_insert([b.lines EXCEPT ![line_num + 1] = bits[1]],
                                   line_num + 1, bits[2])]

\* Buffer::insert_new_line: [panic, buffer]
insert_new_line(b) ==
    LET line_num == b.cursor.line_num
        bits == B_split_line(b)
    IN  IF bits.panic THEN [panic |-> TRUE, buffer |-> b]
        ELSE [panic |-> FALSE,
              buffer |-> set_position(B_update_line(b, bits.bits), 0, line_num + 1)]

----------------------------------------------------------------------------
(* src/src/iota/editor.rs: Editor::save_active_buffer *)

\* File::write at the current position of a file opened without Truncate:
\* the bytes overwrite what was there, what lies beyond them stays
file_write(data, pos, bytes) ==
    Take(data, pos) \o bytes \o Drop(data, pos + Len(bytes))

\* the bytes of lines i..n, each followed by '\n'
RECURSIVE line_bytes(_, _, _)
line_bytes(ls, i, n) ==
    IF i > n THEN <<>> ELSE Append(ls[i].data, LF) \o line_bytes(ls, i + 1, n)

\* Editor::save_active_buffer: [panic, fs].  open_ok is whether
\* File::open_mode(path, Open, Write) succeeds (it creates a missing file);
\* fail_at is the line whose write fails, 0 when none does.
save_active_buffer(f, ls, open_ok, fail_at) ==
    IF ~open_ok THEN [panic |-> TRUE, fs |-> f]
    ELSE LET before == IF f.exists THEN f.data ELSE <<>>
             n == IF fail_at = 0 THEN Len(ls) ELSE fail_at - 1
         IN  [panic |-> fail_at # 0,
              fs |-> [exists |-> TRUE,
                      data |-> file_write(before, 0, line_bytes(ls, 1, n))]]

----------------------------------------------------------------------------
(* The rdit buffer and its file as a state machine *)

NoRet == [offset |-> 0, bits |-> <<>>]

Call(op, offset, line_num) == [op |-> op, offset |-> offset, line_num |-> line_num]

Outcome(panic) == IF panic THEN "panic" ELSE "ok"

Files ==
    {[exists |-> FALSE, data |-> <<>>]}
    \cup {[exists |-> TRUE, data |-> d] : d \in SeqsUpTo(FileBytes, MaxFile)}

\* the arguments a caller may pass: every line number up to one past the
\* last line and beyond, every offset up to one past the end of the line
ArgLines(ls) == 0..(Len(ls) + 1)

ArgOffsets(ls, line_num) ==
    0..(IF line_num < Len(ls) THEN Len(ls[line_num + 1].data) + 1 ELSE 1)

\* no event, outside the editor's loops
NoEvent == [kind |-> "None", key |-> "", ch |-> 0, id |-> 0]

\* the editor's loops are not part of this program
IdleEditor ==
    /\ running = FALSE
    /\ events = <<>>
    /\ pc = "idle"
    /\ event = NoEvent
    /\ polled = 0
    /\ handled = 0
    /\ xy = Cursor_new
    /\ drawn = B_new
    /\ committed = B_new

\* the src/src/buffer.rs Buffer is not part of this program
IdleBuffer ==
    /\ buffer = [lines |-> <<>>, cursor |-> [offset |-> 0, line_num |-> 0]]
    /\ key = [op |-> "none", dir |-> "", ch |-> 0]
    /\ bstatus = "ok"

\* the editor starts on a path: Buffer::new_from_file
Init ==
    /\ fs \in Files
    /\ lines = new_from_file(fs).lines
    /\ status = Outcome(new_from_file(fs).panic)
    /\ call = Call("new_from_file", 0, 0)
    /\ ret = NoRet
    /\ session = 1
    /\ IdleBuffer
    /\ IdleEditor

\* a later session opens the same path again
NewFromFile ==
    /\ status = "ok"
    /\ call.op = "save_active_buffer"
    /\ session < MaxSessions
    /\ session' = session + 1
    /\ LET r == new_from_file(fs) IN
       /\ lines' = r.lines
       /\ status' = Outcome(r.panic)
    /\ call' = Call("new_from_file", 0, 0)
    /\ ret' = NoRet
    /\ UNCHANGED <<fs, buffer, key, bstatus>>
    /\ UNCHANGED evars

\* an "untitled" buffer
NewEmpty ==
    /\ status = "ok"
    /\ lines' = new_empty
    /\ call' = Call("new_empty", 0, 0)
    /\ ret' = NoRet
    /\ UNCHANGED <<fs, status, buffer, key, bstatus, session>>
    /\ UNCHANGED evars

InsertLine ==
    /\ status = "ok"
    /\ Len(lines) < MaxLines
    /\ \E line_num \in ArgLines(lines) :
       \E offset \in ArgOffsets(lines, line_num) :
          LET r == insert_line(lines, offset, line_num) IN
          /\ lines' = r.lines
          /\ status' = Outcome(r.panic)
          /\ call' = Call("insert_line", offset, line_num)
    /\ ret' = NoRet
    /\ UNCHANGED <<fs, buffer, key, bstatus, session>>
    /\ UNCHANGED evars

JoinLineWithPrevious ==
    /\ status = "ok"
    /\ \E line_num \in ArgLines(lines) :
       \E offset \in ArgOffsets(lines, line_num) :
          LET r == join_line_with_previous(lines, offset, line_num) IN
          /\ lines' = r.lines
          /\ status' = Outcome(r.panic)
          /\ ret' = [offset |-> r.ret, bits |-> <<>>]
          /\ call' = Call("join_line_with_previous", offset, line_num)
    /\ UNCHANGED <<fs, buffer, key, bstatus, session>>
    /\ UNCHANGED evars

SplitLine ==
    /\ status = "ok"
    /\ \E line_num \in ArgLines(lines) :
       \E offset \in ArgOffsets(lines, line_num) :
          LET r == split_line(lines, offset, line_num) IN
          /\ status' = Outcome(r.panic)
          /\ ret' = [offset |-> 0, bits |-> r.bits]
          /\ call' = Call("split_line", offset, line_num)
    /\ UNCHANGED <<fs, lines, buffer, key, bstatus, session>>
    /\ UNCHANGED evars

SaveActiveBuffer ==
    /\ status = "ok"
    /\ \E open_ok \in BOOLEAN :
       \E fail_at \in 0..Len(lines) :
          LET r == save_active_buffer(fs, lines, open_ok, fail_at) IN
          /\ fs' = r.fs
          /\ status' = Outcome(r.panic)
    /\ call' = Call("save_active_buffer", 0, 0)
    /\ ret' = NoRet
    /\ UNCHANGED <<lines, buffer, key, bstatus, session>>
    /\ UNCHANGED evars

\* one editing session: construction, then calls on the buffer
Next ==
    \/ NewEmpty
    \/ InsertLine
    \/ JoinLineWithPrevious
    \/ SplitLine

Spec == Init /\ [][Next]_vars

\* sessions that save: edit, save, and open the path again
NextFile ==
    \/ InsertLine
    \/ JoinLineWithPrevious
    \/ SaveActiveBuffer
    \/ NewFromFile

SpecFile == Init /\ [][NextFile]_vars

----------------------------------------------------------------------------
(* The src/src/buffer.rs Buffer as a state machine *)

Key(op, dir, ch) == [op |-> op, dir |-> dir, ch |-> ch]

Directions == {"Up", "Down", "Left", "Right"}

RECURSIVE TextLen(_)
TextLen(ls) == IF ls = <<>> THEN 0 ELSE Len(Head(ls)) + TextLen(Tail(ls))

\* the model stops growing a buffer at MaxText bytes and MaxLines lines
InBounds(b) ==
    /\ TextLen(b.lines) <= MaxText
    /\ b.cursor.offset <= MaxText

\* the rdit buffer is not part of this program, and the file is read once,
\* by InitCursor, and never again
IdleLines ==
    /\ fs = [exists |-> FALSE, data |-> <<>>]
    /\ lines = <<>>
    /\ call = Call("none", 0, 0)
    /\ ret = NoRet
    /\ status = "ok"
    /\ session = 1

\* the editor starts on a path: Buffer::new_from_file reads the file once
InitCursor ==
    /\ \E f \in Files :
          /\ buffer = B_new_from_file(f).buffer
          /\ bstatus = Outcome(B_new_from_file(f).panic)
    /\ key = Key("new_from_file", "", 0)
    /\ IdleLines
    /\ IdleEditor

AdjustCursor ==
    /\ bstatus = "ok"
    /\ \E dir \in Directions :
          /\ buffer' = adjust_cursor(buffer, dir)
          /\ key' = Key("adjust_cursor", dir, 0)
    /\ UNCHANGED <<fs, lines, call, ret, status, bstatus, session>>
    /\ UNCHANGED evars

InsertChar ==
    /\ bstatus = "ok"
    /\ \E ch \in KeyChars :
          LET r == insert_char(buffer, ch) IN
          /\ InBounds(r.buffer)
          /\ buffer' = r.buffer
          /\ bstatus' = Outcome(r.panic)
          /\ key' = Key("insert_char", "", ch)
    /\ UNCHANGED <<fs, lines, call, ret, status, session>>
    /\ UNCHANGED evars

InsertNewLine ==
    /\ bstatus = "ok"
    /\ Len(buffer.lines) < MaxLines
    /\ LET r == insert_new_line(buffer) IN
       /\ InBounds(r.buffer)
       /\ buffer' = r.buffer
       /\ bstatus' = Outcome(r.panic)
    /\ key' = Key("insert_new_line", "", 0)
    /\ UNCHANGED <<fs, lines, call, ret, status, session>>
    /\ UNCHANGED evars

DeleteChar ==
    /\ bstatus = "ok"
    /\ LET r == delete_char(buffer) IN
       /\ InBounds(r.buffer)
       /\ buffer' = r.buffer
       /\ bstatus' = Outcome(r.panic)
    /\ key' = Key("delete_char", "", 0)
    /\ UNCHANGED <<fs, lines, call, ret, status, session>>
    /\ UNCHANGED evars

NextCursor ==
    \/ AdjustCursor
    \/ InsertChar
    \/ InsertNewLine
    \/ DeleteChar

SpecCursor == InitCursor /\ [][NextCursor]_vars

----------------------------------------------------------------------------
(* src/src/iota/editor.rs: the polling thread and the main loop.  view.rs  *)
(* and keyboard.rs are not part of the sources: a View command is taken to *)
(* be the Buffer operation of src/src/buffer.rs that src/src/editor.rs     *)
(* reaches through the same View call, and a Key to be its name.           *)

\* most events the polling thread sends in one run of the model
MaxEvents == 2

\* longest file the editor is started on, in bytes
MaxEdFile == 1

\* "Tab inserts 4 spaces, rather than a \t"
TabWidth == 4

SPACE == 32

\* the keys handle_system_event names, and CHAR for every key of the
\* default arm
Keys ==
    {"UP", "DOWN", "LEFT", "RIGHT", "ENTER", "TAB", "BACKSPACE", "DELETE",
     "CTRL_S", "CTRL_Q", "CTRL_R", "CHAR"}

\* rustbox::poll_event: a key event of a known key, a key event whose code
\* is no Key ("NONE"), or an event that is no key event
PolledEvents ==
    {[kind |-> "KeyEvent", key |-> k, ch |-> 0] : k \in (Keys \ {"CHAR"}) \cup {"NONE"}}
    \cup {[kind |-> "KeyEvent", key |-> "CHAR", ch |-> c] : c \in KeyChars}
    \cup {[kind |-> "ResizeEvent", key |-> "", ch |-> 0]}

\* Sender::send with the event put in front of the queue
chan_send_front(q, e) == <<e>> \o q

\* Sender::send: the channel is a queue
chan_send(q, e) == Append(q, e)

\* num::from_u32(key as u32 + ch): the Key of a key code, if there is one
from_u32(e) == IF e.key \in Keys THEN "Some" ELSE "None"

DirectionOf(k) ==
    CASE k = "UP" -> "Up" [] k = "DOWN" -> "Down"
      [] k = "LEFT" -> "Left" [] k = "RIGHT" -> "Right"

\* View::insert_tab: n spaces, one insert_char each
RECURSIVE insert_tab(_, _)
insert_tab(b, n) ==
    IF n = 0 THEN [panic |-> FALSE, buffer |-> b]
    ELSE LET r == insert_char(b, SPACE) IN
         IF r.panic THEN r ELSE insert_tab(r.buffer, n - 1)

\* View::delete_char(Direction::Right): the unit at the cursor goes; at the
\* end of a line the next line is joined to it; at the end of the buffer
\* nothing happens
delete_forward(b) ==
    LET x == b.cursor.offset
        y == b.cursor.line_num
        line == B_get_line_at(b.lines, y)
        next == B_get_line_at(b.lines, y + 1)
    IN  IF line.tag = "None" THEN [panic |-> FALSE, buffer |-> b]
        ELSE IF x < Len(line.data)
        THEN [panic |-> FALSE,
              buffer |-> [b EXCEPT !.lines[y + 1] =
                             Take(line.data, x) \o Drop(line.data, x + 1)]]
        ELSE IF next.tag = "Some"
        THEN [panic |-> FALSE,
              buffer |-> [b EXCEPT !.lines =
                             vec_remove([b.lines EXCEPT ![y + 1] =
                                            format2(line.data, next.data)],
                                        y + 1)]]
        ELSE [panic |-> FALSE, buffer |-> b]

\* the lines as save_active_buffer reads them
AsLines(b) == [i \in 1..Len(b.lines) |-> [data |-> b.lines[i]]]

\* the keys whose command ends in Cursor::set_position
BufferKeys ==
    {"UP", "DOWN", "LEFT", "RIGHT", "ENTER", "TAB", "BACKSPACE", "DELETE", "CHAR"}

\* Editor::handle_system_event: [panic, buffer, fs, response]
handle_system_event(b, f, e, open_ok, fail_at) ==
    LET done(r) == [panic |-> r.panic, buffer |-> r.buffer, fs |-> f,
                    response |-> "Continue"]
    IN  CASE e.key \in {"UP", "DOWN", "LEFT", "RIGHT"} ->
               done([panic |-> FALSE, buffer |-> adjust_cursor(b, DirectionOf(e.key))])
          [] e.key = "ENTER" -> done(insert_new_line(b))
          [] e.key = "TAB" -> done(insert_tab(b, TabWidth))
          [] e.key = "BACKSPACE" -> done(delete_char(b))
          [] e.key = "DELETE" -> done(delete_forward(b))
          [] e.key = "CTRL_S" ->
               LET r == save_active_buffer(f, AsLines(b), open_ok, fail_at) IN
               [panic |-> r.panic, buffer |-> b, fs |-> r.fs, response |-> "Continue"]
          [] e.key = "CTRL_Q" ->
               [panic |-> FALSE, buffer |-> b, fs |-> f, response |-> "Quit"]
          [] e.key = "CTRL_R" ->
               [panic |-> FALSE, buffer |-> b, fs |-> f, response |-> "Continue"]
          [] e.key = "CHAR" -> done(insert_char(b, e.ch))

\* Editor::handle_key_event
handle_key_event(b, f, e, open_ok, fail_at) ==
    IF from_u32(e) = "None"
    THEN [panic |-> FALSE, buffer |-> b, fs |-> f, response |-> "Continue"]
    ELSE handle_system_event(b, f, e, open_ok, fail_at)

EdFiles ==
    {[exists |-> FALSE, data |-> <<>>]}
    \cup {[exists |-> TRUE, data |-> d] : d \in SeqsUpTo(FileBytes, MaxEdFile)}

\* Editor::new on a path, then Editor::start: running = true, the polling
\* thread is spawned, main_loop is entered
InitEditor ==
    /\ \E f \in EdFiles :
          /\ fs = f
          /\ buffer = B_new_from_file(f).buffer
          /\ committed = B_new_from_file(f).buffer
          /\ bstatus = Outcome(B_new_from_file(f).panic)
    /\ key = Key("new_from_file", "", 0)
    /\ running = TRUE
    /\ events = <<>>
    /\ pc = "draw"
    /\ event = NoEvent
    /\ polled = 0
    /\ handled = 0
    /\ xy = Cursor_new
    /\ drawn = B_new
    /\ lines = <<>>
    /\ call = Call("none", 0, 0)
    /\ ret = NoRet
    /\ status = "ok"
    /\ session = 1

\* the polling thread: loop { sender.send(rustbox::poll_event()) }
PollEvent ==
    /\ bstatus = "ok"
    /\ polled < MaxEvents
    /\ \E e \in PolledEvents :
          events' = chan_send(events, [kind |-> e.kind, key |-> e.key,
                                       ch |-> e.ch, id |-> polled + 1])
    /\ polled' = polled + 1
    /\ UNCHANGED <<fs, lines, call, ret, status, buffer, key, bstatus, session,
                   running, pc, event, handled, xy, drawn, committed>>

\* main_loop: clear, draw, present
Draw ==
    /\ bstatus = "ok"
    /\ pc = "draw"
    /\ drawn' = buffer
    /\ pc' = "recv"
    /\ UNCHANGED <<fs, lines, call, ret, status, buffer, key, bstatus, session,
                   running, events, event, polled, handled, xy, committed>>

\* main_loop: self.events.recv() blocks until there is an event; an event
\* that is no KeyEvent ends the iteration
Recv ==
    /\ bstatus = "ok"
    /\ pc = "recv"
    /\ events # <<>>
    /\ event' = Head(events)
    /\ events' = Tail(events)
    /\ handled' = handled + 1
    /\ pc' = IF Head(events).kind = "KeyEvent" THEN "handle" ELSE "draw"
    /\ UNCHANGED <<fs, lines, call, ret, status, buffer, key, bstatus, session,
                   running, polled, xy, drawn, committed>>

\* main_loop: handle_key_event up to the command's last statement.  A Quit
\* clears running and the loop ends; a panic ends the program; a command on
\* the buffer has written the lines and holds the new position in (x, y).
HandleKeyEvent ==
    /\ bstatus = "ok"
    /\ pc = "handle"
    /\ \E open_ok \in BOOLEAN :
       \E fail_at \in 0..Len(buffer.lines) :
          LET r == handle_key_event(buffer, fs, event, open_ok, fail_at) IN
          /\ fs' = r.fs
          /\ bstatus' = Outcome(r.panic)
          /\ running' = (running /\ r.response # "Quit")
          /\ IF r.panic \/ r.response = "Quit"
             THEN /\ pc' = "done"
                  /\ UNCHANGED <<buffer, xy, committed>>
             ELSE IF event.key \in BufferKeys
             THEN /\ pc' = "set_position"
                  /\ buffer' = [r.buffer EXCEPT !.cursor = buffer.cursor]
                  /\ xy' = r.buffer.cursor
                  /\ UNCHANGED committed
             ELSE /\ pc' = "draw"
                  /\ buffer' = r.buffer
                  /\ committed' = r.buffer
                  /\ UNCHANGED xy
    /\ key' = Key(event.key, "", event.ch)
    /\ UNCHANGED <<lines, call, ret, status, session,
                   events, event, polled, handled, drawn>>

\* the command's last statement, self.cursor.set_position(x, y); the
\* command is complete and main_loop starts its next iteration
SetPosition ==
    /\ bstatus = "ok"
    /\ pc = "set_position"
    /\ buffer' = set_position(buffer, xy.offset, xy.line_num)
    /\ committed' = set_position(buffer, xy.offset, xy.line_num)
    /\ pc' = "draw"
    /\ UNCHANGED <<fs, lines, call, ret, status, key, bstatus, session,
                   running, events, event, polled, handled, xy, drawn>>

NextEditor ==
    \/ PollEvent
    \/ Draw
    \/ Recv
    \/ HandleKeyEvent
    \/ SetPosition

SpecEditor == InitEditor /\ [][NextEditor]_vars

----------------------------------------------------------------------------
(* Claims *)

Data(ls) == [i \in 1..Len(ls) |-> ls[i].data]

CursorInBounds(b) ==
    /\ b.cursor.line_num < Len(b.lines)
    /\ b.cursor.offset <= Len(b.lines[b.cursor.line_num + 1])

\* C1 (SpecCursor): after every adjust_cursor, insert_char, insert_new_line
\* and delete_char on a loaded buffer, the cursor satisfies
\* line_num < lines.len() and offset <= lines[line_num].len().  Stated for
\* the buffers that were loaded with at least one line.
C1_CursorBounds ==
    (bstatus = "ok" /\ key.op # "new_from_file" /\ Len(buffer.lines) >= 1)
        => CursorInBounds(buffer)

\* C2 (Spec): after every insert_line and join_line_with_previous that
\* returns, every line's stored linenum is its position.
C2_Renumbered ==
    status = "ok" => \A i \in 1..Len(lines) : lines[i].linenum = i - 1

\* an insert_line above other lines has returned: those lines moved down
C2_Witness ==
    /\ status = "ok"
    /\ call.op = "insert_line"
    /\ Len(lines) >= call.line_num + 3

\* C3 (Spec): the buffer has at least one line in every state, from
\* construction on.
C3_NonEmpty == status = "ok" => Len(lines) >= 1

\* C4 (Spec): new_from_file on a missing source, and on an existing source
\* with no records, returns a buffer of exactly one empty line.
C4_LoadNeverEmpty ==
    (call.op = "new_from_file" /\ (~fs.exists \/ fs.data = <<>>))
        => (status = "ok" /\ Len(lines) = 1 /\ lines[1].data = <<>>)

\* C5 (Spec): join_line_with_previous(offset, line_num) with
\* 1 <= line_num < N leaves N-1 lines, line line_num-1 holding the two old
\* lines in order, the lines before unchanged, the lines after moved up by
\* one, and returns the old length of line line_num-1, whatever the offset.
C5_JoinConcatenates ==
    [][(/\ call'.op = "join_line_with_previous"
        /\ call'.line_num >= 1
        /\ call'.line_num < Len(lines))
       => LET n == call'.line_num IN
          /\ status' = "ok"
          /\ Len(lines') = Len(lines) - 1
          /\ lines'[n].data = lines[n].data \o lines[n + 1].data
          /\ \A i \in 1..(n - 1) : lines'[i].data = lines[i].data
          /\ \A i \in (n + 2)..Len(lines) : lines'[i - 1].data = lines[i].data
          /\ ret'.offset = Len(lines[n].data)]_vars

\* a join of two non-empty lines, with lines below them, has returned a
\* length that is not the offset it was given
C5_Witness ==
    /\ status = "ok"
    /\ call.op = "join_line_with_previous"
    /\ call.line_num >= 1
    /\ Len(lines) > call.line_num
    /\ ret.offset > 0
    /\ ret.offset # call.offset
    /\ Len(lines[call.line_num].data) > ret.offset

\* C6 (Spec): join_line_with_previous(offset, 0) returns normally, returns
\* the offset it was given and leaves every line unchanged, for every buffer.
C6_JoinAtZeroIsNoOp ==
    [][(call'.op = "join_line_with_previous" /\ call'.line_num = 0)
       => (status' = "ok" /\ ret'.offset = call'.offset /\ lines' = lines)]_vars

\* C7 (Spec): insert_line(offset, line_num) with line_num < N and
\* offset <= len leaves N+1 lines, line line_num holding the first offset
\* units of the old line and line line_num+1 the rest, the other lines
\* unchanged in content and order.
C7_InsertLineSplits ==
    [][(/\ call'.op = "insert_line"
        /\ call'.line_num < Len(lines)
        /\ call'.offset <= Len(lines[call'.line_num + 1].data))
       => LET n == call'.line_num
              old == lines[n + 1].data
          IN  /\ status' = "ok"
              /\ Len(lines') = Len(lines) + 1
              /\ lines'[n + 1].data = Take(old, call'.offset)
              /\ lines'[n + 2].data = Drop(old, call'.offset)
              /\ \A i \in 1..n : lines'[i].data = lines[i].data
              /\ \A i \in (n + 2)..Len(lines) : lines'[i + 1].data = lines[i].data]_vars

\* C8 (Spec): split_line(offset, line_num) with line_num in range and
\* offset <= len returns the units before offset and the units from offset
\* on, and leaves the buffer unchanged.
C8_SplitLineExact ==
    [][(/\ call'.op = "split_line"
        /\ call'.line_num < Len(lines)
        /\ call'.offset <= Len(lines[call'.line_num + 1].data))
       => LET old == lines[call'.line_num + 1].data IN
          /\ status' = "ok"
          /\ ret'.bits = <<Take(old, call'.offset), Drop(old, call'.offset)>>
          /\ lines' = lines]_vars

\* C9 (Spec): for every line_num in range and every k <= len,
\* insert_line(k, line_num) followed by
\* join_line_with_previous(_, line_num + 1) restores the buffer, and the
\* join returns k.
C9_SplitJoinInverse ==
    status = "ok" =>
        \A line_num \in 0..(Len(lines) - 1) :
            \A k \in 0..Len(lines[line_num + 1].data) :
                LET split == insert_line(lines, k, line_num)
                    joined == join_line_with_previous(split.lines, 0, line_num + 1)
                IN  /\ ~split.panic
                    /\ ~joined.panic
                    /\ joined.lines = lines
                    /\ joined.ret = k

\* C10 (SpecFile): after a save the file holds each line followed by one
\* terminator and nothing else, and opening the path again gives a buffer
\* with the same lines.
C10_SaveLoadRoundTrip ==
    [][/\ (call'.op = "save_active_buffer" /\ status' = "ok")
            => fs'.data = line_bytes(lines, 1, Len(lines))
       /\ (call.op = "save_active_buffer" /\ call'.op = "new_from_file")
            => (status' = "ok" /\ Data(lines') = Data(lines))]_vars

\* C11 (SpecCursor): adjust_cursor(Up) decreases line_num by exactly 1 if
\* line_num > 0 and adjust_cursor(Down) increases it by exactly 1 if
\* line_num + 1 < lines.len(); otherwise the position is unchanged.  When
\* the row changes the new offset is min(old offset, length of the new
\* line).  No call fails and no line changes.
C11_VerticalMovement ==
    [][(key'.op = "adjust_cursor" /\ key'.dir \in {"Up", "Down"})
       => LET x == buffer.cursor.offset
              y == buffer.cursor.line_num
              moves == IF key'.dir = "Up" THEN y > 0
                       ELSE y + 1 < Len(buffer.lines)
              row == IF key'.dir = "Up" THEN y - 1 ELSE y + 1
          IN  /\ bstatus' = "ok"
              /\ buffer'.lines = buffer.lines
              /\ IF moves
                 THEN LET len == Len(buffer.lines[row + 1]) IN
                      /\ buffer'.cursor.line_num = row
                      /\ buffer'.cursor.offset = IF x < len THEN x ELSE len
                 ELSE buffer'.cursor = buffer.cursor]_vars

\* a move up or down has ended on the last column of a line that lies next
\* to a longer one: where a column carried over from the longer line is cut
C11_Witness ==
    /\ key.op = "adjust_cursor"
    /\ key.dir \in {"Up", "Down"}
    /\ Len(buffer.lines) >= 2
    /\ buffer.cursor.offset = Len(buffer.lines[buffer.cursor.line_num + 1])
    /\ \E i \in 1..Len(buffer.lines) :
          /\ i \in {buffer.cursor.line_num, buffer.cursor.line_num + 2}
          /\ Len(buffer.lines[i]) > buffer.cursor.offset

\* C12 (SpecCursor): adjust_cursor(Left) decrements offset by 1 iff
\* offset > 0, adjust_cursor(Right) increments it by 1 iff offset is less
\* than the length of the current line; in every other case the position
\* is unchanged, and line_num is unchanged in all cases.  No call fails and
\* no line changes.
C12_HorizontalMovement ==
    [][(key'.op = "adjust_cursor" /\ key'.dir \in {"Left", "Right"})
       => LET x == buffer.cursor.offset
              y == buffer.cursor.line_num
              moves == IF key'.dir = "Left" THEN x > 0
                       ELSE /\ y < Len(buffer.lines)
                            /\ x < Len(buffer.lines[y + 1])
              col == IF key'.dir = "Left" THEN x - 1 ELSE x + 1
          IN  /\ bstatus' = "ok"
              /\ buffer'.lines = buffer.lines
              /\ buffer'.cursor.line_num = y
              /\ buffer'.cursor.offset = IF moves THEN col ELSE x]_vars

\* a move right has ended on the last column of a non-empty line that has a
\* line below it: the row the cursor does not cross into
C12_Witness ==
    /\ key.op = "adjust_cursor"
    /\ key.dir = "Right"
    /\ buffer.cursor.line_num + 1 < Len(buffer.lines)
    /\ buffer.cursor.offset >= 1
    /\ buffer.cursor.offset = Len(buffer.lines[buffer.cursor.line_num + 1])

\* char::encode_utf8 for the characters below U+0800
encode_utf8(ch) ==
    IF ch < 128 THEN <<ch>> ELSE <<192 + (ch \div 64), 128 + (ch % 64)>>

\* C13 (SpecCursor): for every character ch and every in-bounds cursor
\* (offset, line_num), insert_char(ch) changes line line_num to its old
\* content with ch inserted at offset, leaves every other line unchanged
\* and advances the cursor to (offset + 1, line_num); the line changes
\* whenever the cursor advances.
C13_InsertChar ==
    [][(key'.op = "insert_char" /\ CursorInBounds(buffer))
       => LET x == buffer.cursor.offset
              y == buffer.cursor.line_num
              old == buffer.lines[y + 1]
          IN  /\ bstatus' = "ok"
              /\ buffer'.lines =
                     [buffer.lines EXCEPT
                         ![y + 1] = Take(old, x) \o encode_utf8(key'.ch) \o Drop(old, x)]
              /\ buffer'.cursor = [offset |-> x + 1, line_num |-> y]
              /\ (buffer'.cursor # buffer.cursor) <=> (buffer'.lines # buffer.lines)]_vars

\* C14 (SpecCursor): with the cursor at (offset, line_num) and
\* 0 < offset <= length of the line, delete_char removes exactly the unit
\* at position offset - 1 of line line_num, leaves the line count and every
\* other line unchanged, and sets the cursor to (offset - 1, line_num).
C14_BackspaceInsideLine ==
    [][(/\ key'.op = "delete_char"
        /\ CursorInBounds(buffer)
        /\ buffer.cursor.offset > 0)
       => LET x == buffer.cursor.offset
              y == buffer.cursor.line_num
              old == buffer.lines[y + 1]
          IN  /\ bstatus' = "ok"
              /\ buffer'.lines =
                     [buffer.lines EXCEPT ![y + 1] = Take(old, x - 1) \o Drop(old, x)]
              /\ buffer'.cursor = [offset |-> x - 1, line_num |-> y]]_vars

\* C15 (SpecFile): a save that cannot open its destination, or one of whose
\* writes fails, leaves the editor running and the buffer as it was.  A
\* save that succeeds does so too, so the property is stated of every save.
C15_SaveFailureNonFatal ==
    [][call'.op = "save_active_buffer"
       => (status' = "ok" /\ lines' = lines)]_vars

\* C16 (Spec): for every buffer with N lines and every line_num >= N,
\* insert_line and join_line_with_previous fail without modifying the
\* buffer; the only join_line_with_previous that returns normally with the
\* buffer unmodified and the offset echoed back is the one with
\* line_num = 0.
C16_OutOfRangeIsFatal ==
    [][/\ (/\ call'.op \in {"insert_line", "join_line_with_previous"}
           /\ call'.line_num >= Len(lines))
            => (status' = "panic" /\ lines' = lines)
       /\ (/\ call'.op = "join_line_with_previous"
           /\ status' = "ok"
           /\ lines' = lines
           /\ ret'.offset = call'.offset)
            => call'.line_num = 0]_vars

\* C17 (Spec): in every state of the buffer, from construction on, and for
\* every line_num, get_line_at(line_num) returns the line at position
\* line_num when line_num < lines.len() and None, without failing, when
\* line_num >= lines.len().
C17_LookupBoundsChecked ==
    status = "ok" =>
        \A line_num \in ArgLines(lines) :
            get_line_at(lines, line_num) =
                IF line_num < Len(lines)
                THEN [tag |-> "Some", line |-> lines[line_num + 1]]
                ELSE [tag |-> "None"]

\* a record without its line terminator
strip_terminator(rec) ==
    IF rec # <<>> /\ rec[Len(rec)] = LF THEN Take(rec, Len(rec) - 1) ELSE rec

\* C18 (Spec): for a source of N >= 1 records, new_from_file returns
\* exactly N lines in source order, line i holding record i with its line
\* terminator removed and nothing else removed, and with stored index i;
\* the last record included.  Stated for sources that are valid UTF-8.
C18_LoadPreservesRecords ==
    (call.op = "new_from_file" /\ fs.exists /\ fs.data # <<>> /\ is_utf8(fs.data))
        => LET recs == file_lines(fs.data, <<>>) IN
           /\ status = "ok"
           /\ Len(lines) = Len(recs)
           /\ \A i \in 1..Len(recs) :
                 /\ lines[i].data = strip_terminator(recs[i])
                 /\ lines[i].linenum = i - 1

\* C19 (SpecCursor): with the cursor at an in-bounds (offset, line_num),
\* insert_new_line leaves line line_num with its units [0, offset), puts
\* the units [offset, len) in a new line line_num + 1, leaves the other
\* lines in content and order, and sets the cursor to (0, line_num + 1).
C19_EnterSplits ==
    [][(key'.op = "insert_new_line" /\ CursorInBounds(buffer))
       => LET x == buffer.cursor.offset
              y == buffer.cursor.line_num
              old == buffer.lines[y + 1]
          IN  /\ bstatus' = "ok"
              /\ buffer'.lines =
                     Take(buffer.lines, y) \o <<Take(old, x), Drop(old, x)>>
                         \o Drop(buffer.lines, y + 1)
              /\ buffer'.cursor = [offset |-> 0, line_num |-> y + 1]]_vars

\* C20 (SpecCursor): with the cursor at (0, line_num) and line_num >= 1,
\* delete_char appends line line_num to line line_num - 1, removes line
\* line_num and sets the cursor to (length of the former previous line,
\* line_num - 1); with the cursor at (0, 0) it changes neither the buffer
\* nor the cursor and raises no error.
C20_BackspaceAtColumnZero ==
    [][(key'.op = "delete_char" /\ buffer.cursor.offset = 0)
       => LET y == buffer.cursor.line_num IN
          /\ bstatus' = "ok"
          /\ IF y >= 1
             THEN LET prev == buffer.lines[y]
                      cur == buffer.lines[y + 1]
                  IN  /\ buffer'.lines =
                             Take(buffer.lines, y - 1) \o <<prev \o cur>>
                                 \o Drop(buffer.lines, y + 1)
                      /\ buffer'.cursor = [offset |-> Len(prev), line_num |-> y - 1]
             ELSE buffer' = buffer]_vars

\* ASCII text only
RECURSIVE AllAscii(_)
AllAscii(ls) ==
    ls = <<>> \/ ((\A i \in 1..Len(Head(ls)) : Head(ls)[i] < 128) /\ AllAscii(Tail(ls)))

\* a delete_char has left a text of MaxText ASCII bytes, which no removal of
\* a unit can leave behind in a buffer that never held more than MaxText:
\* two non-empty lines were joined, and the cursor is where they meet
C20_Witness ==
    /\ key.op = "delete_char"
    /\ bstatus = "ok"
    /\ TextLen(buffer.lines) = MaxText
    /\ AllAscii(buffer.lines)
    /\ buffer.cursor.offset >= 1
    /\ buffer.cursor.offset < Len(buffer.lines[buffer.cursor.line_num + 1])

\* the text of a buffer: its line contents in document order
RECURSIVE TextOf(_)
TextOf(ls) == IF ls = <<>> THEN <<>> ELSE Head(ls).data \o TextOf(Tail(ls))

C21_ExitsOnlyOnQuit ==
    [][/\ (pc = "handle" /\ event.key # "CTRL_Q")
            => (pc' # "done" /\ bstatus' = "ok" /\ running')
       /\ (pc = "handle" /\ event.key = "CTRL_Q")
            => (pc' = "done" /\ ~running')
       /\ pc = "done"
            => (pc' = "done" /\ handled' = handled /\ buffer' = buffer)]_vars

\* C22 (SpecEditor): in every interleaving of the polling thread with the
\* main loop, the buffer and its cursor change in steps of the main loop
\* only, a draw sees the buffer as the last completed command left it, one
\* event at a time is being handled, and the events are received in the
\* order they were sent, none skipped and none twice: the k-th event
\* received is the k-th sent and the queue holds the ones that follow.
C22_MainLoopOwnsBuffer ==
    [][/\ buffer' # buffer => (pc \in {"handle", "set_position"} /\ pc' # pc)
       /\ (pc = "draw" /\ pc' = "recv") => drawn' = committed
       /\ pc' \in {"handle", "set_position"} => event'.id = handled'
       /\ handled' + Len(events') = polled'
       /\ \A i \in 1..Len(events') : events'[i].id = handled' + i]_vars

\* the polling thread has sent a second event while the main loop is inside
\* a command that has written a line and not yet the cursor
C22_Witness ==
    /\ pc = "set_position"
    /\ buffer.lines # committed.lines
    /\ events # <<>>
    /\ event.id = handled

====
